---- MODULE Spec2Model ----
(***************************************************************************)
(* Model of crates/fluvio-connector-package/src/config/mod.rs: the         *)
(* versioned connector configuration (ConnectorConfig), its payload        *)
(* (ConnectorConfigV1 / MetaConfig) and the validated SecretName type.     *)
(*                                                                         *)
(* Strings whose characters matter (secret names, meta.type) are sequences *)
(* of characters; a character is a one-element token.  Option<T> is a      *)
(* sequence of length at most one: None == <<>>, Some(x) == <<x>>.         *)
(* Result<T, E> is a record [ok, val, err] with val an Option.             *)
(***************************************************************************)
EXTENDS Naturals, Sequences, FiniteSets

VARIABLES
    input,        \* SpecName: the string handed to the SecretName constructors
    parsed,       \* SpecName: Option of the result of SecretName::from_str(input)
    decoded,      \* SpecName: Option of the result of SecretName::deserialize(input)
    live,         \* SpecName: the SecretName instances constructed so far
    liveCfg,      \* SpecName: the SecretConfig instances constructed so far
    cfg,          \* Spec/SpecFile: Option of the ConnectorConfig the caller holds
    err,          \* Spec/SpecFile: the error of the last failed call (NoErr if none)
    doc,          \* Spec: Option of the document handed to the last parse call
    op,           \* Spec/SpecFile: name of the last operation called
    file          \* SpecFile: Option of the document written by write_to_file

vars == <<input, parsed, decoded, live, liveCfg, cfg, err, doc, op, file>>

nameVars == <<input, parsed, decoded, live, liveCfg>>
cfgVars == <<cfg, err, doc, op, file>>

----------------------------------------------------------------------------
(* Bounds of the model *)

\* longest string handed to the SecretName constructors
MaxLen == 3
\* longest secret name occurring in a document
MaxDocNameLen == 1
\* longest meta.secrets list
MaxSecrets == 2

----------------------------------------------------------------------------
(* Characters *)

AsciiLetters == {"a", "Z"}
AsciiDigits == {"1"}
\* "U+00E9" stands for a non-ASCII letter (alphanumeric, but not ASCII)
Chars == AsciiLetters \cup AsciiDigits \cup {"_", " ", "-", "U+00E9"}
DocChars == {"a", "1", " "}

\* char::is_ascii_alphanumeric
IsAsciiAlphanumeric(c) == c \in AsciiLetters \cup AsciiDigits
\* char::is_ascii_digit
IsAsciiDigit(c) == c \in AsciiDigits

SeqsUpTo(S, n) == UNION {[1..k -> S] : k \in 0..n}

Strings == SeqsUpTo(Chars, MaxLen)
DocNames == SeqsUpTo(DocChars, MaxDocNameLen)

----------------------------------------------------------------------------
(* Option, Result and errors *)

None == <<>>
Some(x) == <<x>>
IsSome(o) == Len(o) = 1
Unwrap(o) == o[1]

\* an error: the message template (its backquotes left out), the secret name
\* it quotes (if any), the field, variant or value it quotes (if any), and the
\* accepted variants it lists
Error(msg, name, subject, expected) ==
    [msg |-> msg, name |-> name, subject |-> subject, expected |-> expected]
NoErr == Error("", <<>>, "", <<>>)

Ok(v) == [ok |-> TRUE, val |-> Some(v), err |-> NoErr]
Err(e) == [ok |-> FALSE, val |-> None, err |-> e]

----------------------------------------------------------------------------
(* SecretName and SecretConfig *)

SecretNameOf(s) == [inner |-> s]

ErrEmpty == Error("Secret name cannot be empty", <<>>, "", <<>>)
ErrInvalidChar(s) ==
    Error("Secret name {} can only contain alphanumeric ASCII characters and underscores",
          s, "", <<>>)
ErrLeadingDigit(s) == Error("Secret name {} cannot start with a number", s, "", <<>>)

\* Mutant of Validate: the leading-digit check is missing
ValidateNoDigitCheck(n) ==
    IF Len(n.inner) = 0 THEN Err(ErrEmpty)
    ELSE IF ~(\A i \in 1..Len(n.inner) :
                IsAsciiAlphanumeric(n.inner[i]) \/ n.inner[i] = "_")
         THEN Err(ErrInvalidChar(n.inner))
    ELSE Ok(n)

\* Mutant of Validate: the leading digit is checked before the characters
ValidateDigitFirst(n) ==
    IF Len(n.inner) = 0 THEN Err(ErrEmpty)
    ELSE IF IsAsciiDigit(n.inner[1]) THEN Err(ErrLeadingDigit(n.inner))
    ELSE IF ~(\A i \in 1..Len(n.inner) :
                IsAsciiAlphanumeric(n.inner[i]) \/ n.inner[i] = "_")
         THEN Err(ErrInvalidChar(n.inner))
    ELSE Ok(n)

\* SecretName::validate; Ok carries the validated name itself
Validate(n) ==
    IF Len(n.inner) = 0 THEN Err(ErrEmpty)
    ELSE IF ~(\A i \in 1..Len(n.inner) :
                IsAsciiAlphanumeric(n.inner[i]) \/ n.inner[i] = "_")
         THEN Err(ErrInvalidChar(n.inner))
    ELSE IF IsAsciiDigit(n.inner[1]) THEN Err(ErrLeadingDigit(n.inner))
    ELSE Ok(n)

\* <SecretName as FromStr>::from_str
SecretNameFromStr(value) == Validate(SecretNameOf(value))

\* <SecretName as Deserialize>::deserialize, from a string scalar
SecretNameDeserialize(s) == Validate(SecretNameOf(s))

\* #[derive(Default)] on SecretName: the inner String is String::default()
SecretNameDefault == SecretNameOf(<<>>)

\* SecretConfig::new
SecretConfigNew(secret_name) == [name |-> secret_name]

\* #[derive(Default)] on SecretConfig
SecretConfigDefault == [name |-> SecretNameDefault]

----------------------------------------------------------------------------
(* SpecName: the construction paths of SecretName and SecretConfig, applied *)
(* to one input string                                                      *)

CfgIdle ==
    /\ cfg = None
    /\ err = NoErr
    /\ doc = None
    /\ op = "init"
    /\ file = None

InitName ==
    /\ input \in Strings
    /\ parsed = None
    /\ decoded = None
    /\ live = {}
    /\ liveCfg = {}
    /\ CfgIdle

\* "s".parse::<SecretName>()
FromStr ==
    /\ parsed = None
    /\ parsed' = Some(SecretNameFromStr(input))
    /\ live' = IF SecretNameFromStr(input).ok
               THEN live \cup {Unwrap(SecretNameFromStr(input).val)}
               ELSE live
    /\ UNCHANGED <<input, decoded, liveCfg>>
    /\ UNCHANGED cfgVars

\* serde_yaml::from_str::<SecretName>(s)
Deserialize ==
    /\ decoded = None
    /\ decoded' = Some(SecretNameDeserialize(input))
    /\ live' = IF SecretNameDeserialize(input).ok
               THEN live \cup {Unwrap(SecretNameDeserialize(input).val)}
               ELSE live
    /\ UNCHANGED <<input, parsed, liveCfg>>
    /\ UNCHANGED cfgVars

\* SecretName::default()
DefaultSecretName ==
    /\ SecretNameDefault \notin live
    /\ live' = live \cup {SecretNameDefault}
    /\ UNCHANGED <<input, parsed, decoded, liveCfg>>
    /\ UNCHANGED cfgVars

\* SecretConfig::default()
DefaultSecretConfig ==
    /\ SecretConfigDefault \notin liveCfg
    /\ liveCfg' = liveCfg \cup {SecretConfigDefault}
    /\ UNCHANGED <<input, parsed, decoded, live>>
    /\ UNCHANGED cfgVars

\* SecretConfig::new(name) of a SecretName the caller holds
NewSecretConfig ==
    /\ \E n \in live :
          /\ SecretConfigNew(n) \notin liveCfg
          /\ liveCfg' = liveCfg \cup {SecretConfigNew(n)}
    /\ UNCHANGED <<input, parsed, decoded, live>>
    /\ UNCHANGED cfgVars

NextName ==
    \/ FromStr
    \/ Deserialize
    \/ DefaultSecretName
    \/ DefaultSecretConfig
    \/ NewSecretConfig

SpecName == InitName /\ [][NextName]_vars

----------------------------------------------------------------------------
(* Documents: the key/value tree a YAML text or a serde_yaml::Value holds.  *)
(* A key that is absent is None; a key that is present holds Some(value).   *)

YNull == [tag |-> "null", s |-> ""]
YStr(x) == [tag |-> "str", s |-> x]
YNullSeq == [tag |-> "null", items |-> <<>>]
YSeq(items) == [tag |-> "seq", items |-> items]

SOURCE_SUFFIX == <<"-", "s", "o", "u", "r", "c", "e">>
IMAGE_PREFFIX == "infinyon/fluvio-connect"

TypeStems == {<<>>, <<"m">>, <<"-", "s">>}
TypeTails ==
    { <<>>,
      SOURCE_SUFFIX,
      <<"s", "o", "u", "r", "c", "e">>,
      <<"-", "s", "o", "u", "r", "c">>,
      <<"-", "s", "i", "n", "k">>,
      SOURCE_SUFFIX \o <<"s">>,
      <<"-", "S", "O", "U", "R", "C", "E">> }
\* the values of meta.type the model uses
TypeSet == {a \o b : a \in TypeStems, b \in TypeTails}
DocTypes == {<<"m">> \o SOURCE_SUFFIX, <<"m", "-", "s", "i", "n", "k">>}
Versions == {"0.1.0", "latest"}

\* the values of the apiVersion key: absent, null, the two literals, another string
ApiVersionValues ==
    {None, Some(YNull), Some(YStr("0.0.0")), Some(YStr("0.1.0")), Some(YStr("v1"))}

\* the values of meta.producer: absent, a producer with linger "1ms", a producer
\* with linger "1" (not a duration)
ProducerValues == {None, Some("1ms"), Some("1")}

\* the values of meta.secrets: absent, null, a list of {name: <string>} entries
SecretsValues ==
    {None, Some(YNullSeq)} \cup {Some(YSeq(l)) : l \in SeqsUpTo(DocNames, MaxSecrets)}

\* producerFirst: whether the producer key precedes the secrets key in meta
MetaDocs ==
    { [name |-> Some("my-test-mqtt"), type |-> Some(t), topic |-> Some("my-mqtt"),
       version |-> v, producer |-> p, secrets |-> s, producerFirst |-> f] :
        t \in DocTypes, v \in {None, Some("0.1.0")}, p \in ProducerValues,
        s \in SecretsValues, f \in BOOLEAN }

\* a producer that decodes makes the key order irrelevant: keep one order
Docs ==
    { [apiVersion |-> a, meta |-> m, transforms |-> x] :
        a \in ApiVersionValues,
        m \in {md \in MetaDocs : md.producer = Some("1") \/ md.producerFirst},
        x \in {None, Some("transforms")} }

----------------------------------------------------------------------------
(* Decoding *)

ErrMissingField(f) == Error("missing field {}", <<>>, f, <<>>)
ErrUnknownVariant(v, expected) ==
    Error("unknown variant {}, expected {} or {}", <<>>, v, expected)
ErrDuration(v) == Error("invalid value: string {}, expected a duration", <<>>, v, <<>>)

\* Mutant of DeserializeSecretConfig: the name is taken without validation
DeserializeSecretConfigUnchecked(s) == Ok(SecretConfigNew(SecretNameOf(s)))

\* #[derive(Deserialize)] on SecretConfig, from an entry {name: s}
DeserializeSecretConfig(s) ==
    LET n == SecretNameDeserialize(s)
    IN  IF n.ok THEN Ok(SecretConfigNew(Unwrap(n.val))) ELSE Err(n.err)

\* Mutant of DeserializeSecretVec: decoding goes on after a failure and the
\* last error is reported
RECURSIVE DeserializeSecretVecLastError(_)
DeserializeSecretVecLastError(items) ==
    IF items = <<>> THEN Ok(<<>>)
    ELSE LET h == DeserializeSecretConfig(Head(items))
             t == DeserializeSecretVecLastError(Tail(items))
         IN  IF ~t.ok THEN Err(t.err)
             ELSE IF ~h.ok THEN Err(h.err)
             ELSE Ok(<<Unwrap(h.val)>> \o Unwrap(t.val))

\* Vec<SecretConfig>::deserialize: the entries in order, the first failure aborts
RECURSIVE DeserializeSecretVec(_)
DeserializeSecretVec(items) ==
    IF items = <<>> THEN Ok(<<>>)
    ELSE LET h == DeserializeSecretConfig(Head(items))
         IN  IF ~h.ok THEN Err(h.err)
             ELSE LET t == DeserializeSecretVec(Tail(items))
                  IN  IF ~t.ok THEN Err(t.err)
                      ELSE Ok(<<Unwrap(h.val)>> \o Unwrap(t.val))

\* MetaConfig.secrets: Option<Vec<SecretConfig>> with #[serde(default)]
DeserializeSecretsField(f) ==
    IF f = None \/ Unwrap(f).tag = "null" THEN Ok(None)
    ELSE LET v == DeserializeSecretVec(Unwrap(f).items)
         IN  IF v.ok THEN Ok(Some(Unwrap(v.val))) ELSE Err(v.err)

\* MetaConfig.producer: Option<ProducerParameters>, linger through humantime_serde
DeserializeProducerField(f) ==
    IF f = None THEN Ok(None)
    ELSE IF Unwrap(f) = "1ms" THEN Ok(Some([linger |-> Unwrap(f)]))
    ELSE Err(ErrDuration(Unwrap(f)))

\* #[derive(Deserialize)] on MetaConfig: the keys are decoded in document order
\* and the first failure aborts; a missing mandatory field is reported after
\* all keys were visited, in field order
DeserializeMetaConfig(m) ==
    LET prod == DeserializeProducerField(m.producer)
        secs == DeserializeSecretsField(m.secrets)
        first == IF m.producerFirst THEN prod ELSE secs
        second == IF m.producerFirst THEN secs ELSE prod
    IN  IF ~first.ok THEN Err(first.err)
        ELSE IF ~second.ok THEN Err(second.err)
        ELSE IF m.name = None THEN Err(ErrMissingField("name"))
        ELSE IF m.type = None THEN Err(ErrMissingField("type"))
        ELSE IF m.topic = None THEN Err(ErrMissingField("topic"))
        ELSE IF m.version = None THEN Err(ErrMissingField("version"))
        ELSE Ok([name |-> Unwrap(m.name), type_ |-> Unwrap(m.type),
                 topic |-> Unwrap(m.topic), version |-> Unwrap(m.version),
                 producer |-> Unwrap(prod.val), secrets |-> Unwrap(secs.val)])

\* #[derive(Deserialize)] on ConnectorConfigV1: meta, and the flattened
\* transformation schema (opaque)
DeserializeConnectorConfigV1(d) ==
    LET m == DeserializeMetaConfig(d.meta)
    IN  IF ~m.ok THEN Err(m.err)
        ELSE Ok([meta |-> Unwrap(m.val), transforms |-> d.transforms])

\* the serde names of enum Version, in declaration order
VersionNames == <<"0.0.0", "0.1.0">>

\* #[derive(Deserialize)] on enum Version, from a string
DeserializeVersion(s) ==
    IF s = VersionNames[1] THEN Ok("V0")
    ELSE IF s = VersionNames[2] THEN Ok("V1")
    ELSE Err(ErrUnknownVariant(s, VersionNames))

\* VersionedConfig.api_version: Option<Version>; an absent key and a null
\* value both decode to None
DeserializeApiVersion(f) ==
    IF f = None \/ Unwrap(f).tag = "null" THEN Ok(None)
    ELSE LET v == DeserializeVersion(Unwrap(f).s)
         IN  IF v.ok THEN Ok(Some(Unwrap(v.val))) ELSE Err(v.err)

\* Mutant of VersionOrDefault: an absent version selects the current schema
VersionOrDefaultV1(o) == IF o = None THEN "V1" ELSE Unwrap(o)

\* versioned_config.api_version.unwrap_or(Version::V0)
VersionOrDefault(o) == IF o = None THEN "V0" ELSE Unwrap(o)

V0_0_0(config) == [variant |-> "V0_0_0", config |-> config]
V0_1_0(config) == [variant |-> "V0_1_0", config |-> config]

\* <ConnectorConfig as Deserialize>::deserialize
DeserializeConnectorConfig(d) ==
    LET api == DeserializeApiVersion(d.apiVersion)
    IN  IF ~api.ok THEN Err(api.err)
        ELSE LET version == VersionOrDefault(Unwrap(api.val))
                 payload == DeserializeConnectorConfigV1(d)
             IN  IF ~payload.ok THEN Err(payload.err)
                 ELSE IF version = "V0" THEN Ok(V0_0_0(Unwrap(payload.val)))
                 ELSE Ok(V0_1_0(Unwrap(payload.val)))

----------------------------------------------------------------------------
(* Accessors *)

\* HashSet::insert for SecretConfig, whose derived Eq and Hash compare the
\* name: an element equal to one already in the set is not inserted
HashSetInsert(s, x) == IF \E y \in s : y.name = x.name THEN s ELSE s \cup {x}

\* Mutant of HashSetFromIter: the last element is not inserted
RECURSIVE HashSetFromIterSkipLast(_)
HashSetFromIterSkipLast(v) ==
    IF Len(v) <= 1 THEN {}
    ELSE HashSetInsert(HashSetFromIterSkipLast(SubSeq(v, 1, Len(v) - 1)), v[Len(v) - 1])

\* HashSet::from_iter: the elements are inserted in order
RECURSIVE HashSetFromIter(_)
HashSetFromIter(v) ==
    IF v = <<>> THEN {}
    ELSE HashSetInsert(HashSetFromIter(SubSeq(v, 1, Len(v) - 1)), v[Len(v)])

\* MetaConfig::secrets
MetaSecrets(meta) ==
    HashSetFromIter(IF meta.secrets = None THEN <<>> ELSE Unwrap(meta.secrets))

\* Mutant of EndsWith: the suffix may occur anywhere in the string
ContainsSeq(s, suffix) ==
    \E k \in 0..Len(s) :
        /\ k + Len(suffix) <= Len(s)
        /\ \A i \in 1..Len(suffix) : s[k + i] = suffix[i]

\* str::ends_with
EndsWith(s, suffix) ==
    /\ Len(s) >= Len(suffix)
    /\ \A i \in 1..Len(suffix) : s[Len(s) - Len(suffix) + i] = suffix[i]

\* MetaConfig::direction
MetaDirection(meta) ==
    IF EndsWith(meta.type_, SOURCE_SUFFIX) THEN "source" ELSE "dest"

\* MetaConfig::image: the pieces format!("{}-{}:{}", ..) joins
MetaImage(meta) == <<IMAGE_PREFFIX, "-", meta.type_, ":", meta.version>>

\* ConnectorConfig::meta
ConfigMeta(c) == c.config.meta

\* Mutant of MutMeta: the edited configuration loses its transforms
MutMetaDropsTransforms(c, meta) ==
    [variant |-> c.variant, config |-> [meta |-> meta, transforms |-> None]]

\* ConnectorConfig::mut_meta followed by the caller's assignment through it
MutMeta(c, meta) == [c EXCEPT !.config.meta = meta]

\* Mutant of Secrets: the legacy variant surfaces its secrets too
SecretsOfAnyVariant(c) == MetaSecrets(c.config.meta)

\* ConnectorConfig::secrets
Secrets(c) ==
    IF c.variant = "V0_1_0" THEN MetaSecrets(c.config.meta) ELSE {}

\* ConnectorConfig::transforms
Transforms(c) == c.config.transforms

\* ConnectorConfig::direction
Direction(c) == MetaDirection(ConfigMeta(c))

\* ConnectorConfig::image
Image(c) == MetaImage(ConfigMeta(c))

\* ConnectorConfig::validate_secret_names: the errors the loop over the hash
\* set can return; which one depends on the set's iteration order
ValidateSecretNamesErrors(c) ==
    {Validate(s.name).err : s \in {x \in Secrets(c) : ~Validate(x.name).ok}}

\* connector_config.validate_secret_names()?; Ok(connector_config) -- applied
\* to the result r of serde_yaml::from_str / from_value, whose error `?` returns
ValidatedResults(r) ==
    IF ~r.ok THEN {Err(r.err)}
    ELSE IF ValidateSecretNamesErrors(Unwrap(r.val)) = {} THEN {Ok(Unwrap(r.val))}
    ELSE {Err(e) : e \in ValidateSecretNamesErrors(Unwrap(r.val))}

\* ConnectorConfig::config_from_str: the results it can return for a document
ConfigFromStrResults(d) == ValidatedResults(DeserializeConnectorConfig(d))

\* ConnectorConfig::from_value: the results it can return for a document
FromValueResults(d) == ValidatedResults(DeserializeConnectorConfig(d))

\* MetaConfig::default and ConnectorConfigV1::default (derived)
MetaConfigDefault ==
    [name |-> "", type_ |-> <<>>, topic |-> "", version |-> "",
     producer |-> None, secrets |-> None]
ConnectorConfigV1Default == [meta |-> MetaConfigDefault, transforms |-> None]

\* <ConnectorConfig as Default>::default
ConnectorConfigDefault == V0_1_0(ConnectorConfigV1Default)

----------------------------------------------------------------------------
(* Encoding *)

\* the serde name of the variant: #[serde(rename = ..)] on ConnectorConfig
TagOf(c) == IF c.variant = "V0_0_0" THEN "0.0.0" ELSE "0.1.0"

\* Mutant of SerializeOption: an absent value is written as null
SerializeOptionAsNull(o, null, value) == IF o = None THEN Some(null) ELSE Some(value)

\* #[serde(skip_serializing_if = "Option::is_none")]: no key for None
SerializeOption(o, null, value) == IF o = None THEN None ELSE Some(value)

\* <SecretName as Serialize>::serialize
SerializeSecretName(n) == n.inner

\* #[derive(Serialize)] on MetaConfig, the keys in field order
SerializeMetaConfig(m) ==
    [name |-> Some(m.name), type |-> Some(m.type_), topic |-> Some(m.topic),
     version |-> Some(m.version),
     producer |-> IF m.producer = None THEN None ELSE Some(Unwrap(m.producer).linger),
     secrets |->
        SerializeOption(m.secrets, YNullSeq,
            YSeq([i \in 1..Len(IF m.secrets = None THEN <<>> ELSE Unwrap(m.secrets)) |->
                    SerializeSecretName(Unwrap(m.secrets)[i].name)])),
     producerFirst |-> TRUE]

\* #[derive(Serialize)] #[serde(tag = "apiVersion")] on ConnectorConfig, as
\* serde_yaml::to_string in write_to_file emits it
SerializeConnectorConfig(c) ==
    [apiVersion |-> Some(YStr(TagOf(c))),
     meta |-> SerializeMetaConfig(c.config.meta),
     transforms |-> c.config.transforms]

----------------------------------------------------------------------------
(* Spec: one configuration is constructed (parsed from a document or        *)
(* defaulted) and then edited through mut_meta                              *)

NameIdle ==
    /\ input = <<>>
    /\ parsed = None
    /\ decoded = None
    /\ live = {}
    /\ liveCfg = {}

Init == NameIdle /\ CfgIdle

\* ConnectorConfig::config_from_str(text), text holding the document d
ConfigFromStr ==
    /\ op = "init"
    /\ \E d \in Docs : \E r \in ConfigFromStrResults(d) :
          /\ cfg' = r.val
          /\ err' = r.err
          /\ doc' = Some(d)
    /\ op' = "config_from_str"
    /\ UNCHANGED file
    /\ UNCHANGED nameVars

\* ConnectorConfig::from_value(value), value holding the document d
FromValue ==
    /\ op = "init"
    /\ \E d \in Docs : \E r \in FromValueResults(d) :
          /\ cfg' = r.val
          /\ err' = r.err
          /\ doc' = Some(d)
    /\ op' = "from_value"
    /\ UNCHANGED file
    /\ UNCHANGED nameVars

\* ConnectorConfig::default()
DefaultConfig ==
    /\ op = "init"
    /\ cfg' = Some(ConnectorConfigDefault)
    /\ err' = NoErr
    /\ doc' = None
    /\ op' = "default"
    /\ UNCHANGED file
    /\ UNCHANGED nameVars

\* the caller's edit of the held configuration: meta becomes m
Edit(m) ==
    /\ cfg' = Some(MutMeta(Unwrap(cfg), m))
    /\ err' = NoErr
    /\ doc' = None
    /\ op' = "mut_meta"
    /\ UNCHANGED file
    /\ UNCHANGED nameVars

\* config.mut_meta().type_ = t
MutMetaSetType ==
    /\ IsSome(cfg)
    /\ \E t \in TypeSet : Edit([ConfigMeta(Unwrap(cfg)) EXCEPT !.type_ = t])

\* config.mut_meta().version = v
MutMetaSetVersion ==
    /\ IsSome(cfg)
    /\ \E v \in Versions : Edit([ConfigMeta(Unwrap(cfg)) EXCEPT !.version = v])

\* config.mut_meta().secrets = None
MutMetaClearSecrets ==
    /\ IsSome(cfg)
    /\ Edit([ConfigMeta(Unwrap(cfg)) EXCEPT !.secrets = None])

\* the secrets a caller can build: SecretConfig::new of a parsed name, and
\* SecretConfig::default()
BuildableSecrets ==
    {SecretConfigNew(Unwrap(SecretNameFromStr(s).val)) :
        s \in {x \in DocNames : SecretNameFromStr(x).ok}}
    \cup {SecretConfigDefault}

\* config.mut_meta().secrets.get_or_insert_with(Vec::new).push(secret)
MutMetaPushSecret ==
    /\ IsSome(cfg)
    /\ LET m == ConfigMeta(Unwrap(cfg))
           old == IF m.secrets = None THEN <<>> ELSE Unwrap(m.secrets)
       IN  /\ Len(old) < MaxSecrets
           /\ \E s \in BuildableSecrets :
                 Edit([m EXCEPT !.secrets = Some(Append(old, s))])

Next ==
    \/ ConfigFromStr
    \/ FromValue
    \/ DefaultConfig
    \/ MutMetaSetType
    \/ MutMetaSetVersion
    \/ MutMetaClearSecrets
    \/ MutMetaPushSecret

Spec == Init /\ [][Next]_vars

----------------------------------------------------------------------------
(* SpecFile: a held configuration is written to a file and read back        *)

\* the secrets lists a held configuration can carry
HeldSecrets ==
    {None} \cup {Some(l) : l \in SeqsUpTo(BuildableSecrets, MaxSecrets)}

\* the configurations a caller can hold: parsed or defaulted, then edited
HeldConfigs ==
    { [variant |-> v,
       config |-> [meta |-> [name |-> "my-test-mqtt", type_ |-> t, topic |-> "my-mqtt",
                             version |-> ver, producer |-> p, secrets |-> s],
                   transforms |-> x]] :
        v \in {"V0_0_0", "V0_1_0"}, t \in TypeSet, ver \in Versions,
        p \in {None, Some([linger |-> "1ms"])}, s \in HeldSecrets,
        x \in {None, Some("transforms")} }

InitFile ==
    /\ NameIdle
    /\ cfg \in {Some(c) : c \in HeldConfigs \cup {ConnectorConfigDefault}}
    /\ err = NoErr
    /\ doc = None
    /\ op = "init"
    /\ file = None

\* config.write_to_file(path)
WriteToFile ==
    /\ op = "init"
    /\ IsSome(cfg)
    /\ file' = Some(SerializeConnectorConfig(Unwrap(cfg)))
    /\ op' = "write_to_file"
    /\ UNCHANGED <<cfg, err, doc>>
    /\ UNCHANGED nameVars

\* ConnectorConfig::from_file(path) of the file written
FromFile ==
    /\ op = "write_to_file"
    /\ IsSome(file)
    /\ \E r \in ConfigFromStrResults(Unwrap(file)) :
          /\ cfg' = r.val
          /\ err' = r.err
    /\ doc' = file
    /\ op' = "from_file"
    /\ UNCHANGED file
    /\ UNCHANGED nameVars

NextFile ==
    \/ WriteToFile
    \/ FromFile

SpecFile == InitFile /\ [][NextFile]_vars

----------------------------------------------------------------------------
(* Claims about SecretName construction (checked under SpecName) *)

\* the class [A-Za-z0-9_] and the class [0-9], over the characters of the model
WordClass == {"a", "Z", "1", "_"}
DigitClass == {"1"}

\* non-empty, every character in [A-Za-z0-9_], first character not a digit
WellFormedName(s) ==
    /\ Len(s) > 0
    /\ \A i \in 1..Len(s) : s[i] \in WordClass
    /\ s[1] \notin DigitClass

\* C1: constructing a SecretName from s succeeds iff s is non-empty, all its
\* characters are in [A-Za-z0-9_] and its first character is not a digit; the
\* two paths (from_str, deserialize) accept and reject the same strings, and
\* an accepted name holds s unchanged.
C1_ConstructIffWellFormed ==
    /\ IsSome(parsed) =>
          /\ Unwrap(parsed).ok <=> WellFormedName(input)
          /\ Unwrap(parsed).ok => Unwrap(Unwrap(parsed).val).inner = input
    /\ IsSome(decoded) =>
          /\ Unwrap(decoded).ok <=> WellFormedName(input)
          /\ Unwrap(decoded).ok => Unwrap(Unwrap(decoded).val).inner = input
    /\ (IsSome(parsed) /\ IsSome(decoded)) => Unwrap(parsed).ok = Unwrap(decoded).ok

C1_Witness ==
    /\ IsSome(parsed) /\ IsSome(decoded)
    /\ Unwrap(parsed).ok /\ Unwrap(decoded).ok
    /\ Len(input) = MaxLen
    /\ \E i \in 2..Len(input) : input[i] \in DigitClass

\* C2 (as claimed): every live SecretName instance, whatever constructed it
\* (from_str, deserialize, the Default constructors of SecretName and
\* SecretConfig, SecretConfig::new), holds a well-formed name.
C2_AllLiveNamesWellFormed ==
    /\ \A n \in live : WellFormedName(n.inner)
    /\ \A c \in liveCfg : WellFormedName(c.name.inner)

----------------------------------------------------------------------------
(* Claims about parsing and the accessors (checked under Spec) *)

ParseOps == {"config_from_str", "from_value"}

\* what the last parse call returned, and what it can return for a document
Returned == [val |-> cfg, err |-> err]
ResultsOf(o, d) ==
    {[val |-> r.val, err |-> r.err] :
        r \in IF o = "from_value" THEN FromValueResults(d) ELSE ConfigFromStrResults(d)}

\* the names a document declares in meta.secrets, in declaration order
DeclaredNames(d) ==
    IF d.meta.secrets = None THEN <<>> ELSE Unwrap(d.meta.secrets).items

IllFormedAt(names) == {i \in 1..Len(names) : ~WellFormedName(names[i])}

\* the names a configuration carries in meta.secrets, in order
CarriedNames(c) ==
    IF c.config.meta.secrets = None THEN <<>>
    ELSE [i \in 1..Len(Unwrap(c.config.meta.secrets)) |->
            Unwrap(c.config.meta.secrets)[i].name.inner]

\* C3: every ConnectorConfig returned by config_from_str, from_value or Default,
\* of either variant, carries only well-formed names in meta.secrets; a legacy
\* document declaring an ill-formed name yields no configuration.
C3_ReturnedSecretsWellFormed ==
    /\ (op \in ParseOps \cup {"default"} /\ IsSome(cfg)) =>
          IllFormedAt(CarriedNames(Unwrap(cfg))) = {}
    /\ (op \in ParseOps
          /\ Unwrap(doc).apiVersion \in {None, Some(YNull), Some(YStr("0.0.0"))}
          /\ IllFormedAt(DeclaredNames(Unwrap(doc))) # {}) => cfg = None

C3_Witness ==
    /\ op = "config_from_str"
    /\ Unwrap(doc).apiVersion = None
    /\ IllFormedAt(DeclaredNames(Unwrap(doc))) # {}
    /\ cfg = None
    /\ err.name \in {DeclaredNames(Unwrap(doc))[i] : i \in 1..Len(DeclaredNames(Unwrap(doc)))}

\* C4: a document without the apiVersion key parses to what the same document
\* with apiVersion: 0.0.0 parses to (the legacy variant with the same payload,
\* or the same failure); with apiVersion: 0.1.0 the result is V0_1_0 wrapping
\* the payload the legacy parse of the rest of the document yields.
C4_UntaggedIsLegacy ==
    op \in ParseOps =>
       /\ Unwrap(doc).apiVersion = None =>
             /\ Returned \in
                  ResultsOf(op, [Unwrap(doc) EXCEPT !.apiVersion = Some(YStr("0.0.0"))])
             /\ IsSome(cfg) => Unwrap(cfg).variant = "V0_0_0"
       /\ Unwrap(doc).apiVersion = Some(YStr("0.1.0")) =>
             \E r \in ResultsOf(op, [Unwrap(doc) EXCEPT !.apiVersion = None]) :
                /\ r.err = err
                /\ IsSome(r.val) = IsSome(cfg)
                /\ IsSome(cfg) =>
                      /\ Unwrap(cfg).variant = "V0_1_0"
                      /\ Unwrap(cfg).config = Unwrap(r.val).config

C4_Witness ==
    /\ op = "config_from_str"
    /\ Unwrap(doc).apiVersion = None
    /\ IsSome(cfg)
    /\ Unwrap(cfg).variant = "V0_0_0"
    /\ Len(CarriedNames(Unwrap(cfg))) > 0

\* C5 (as claimed): a document whose apiVersion is present with any value other
\* than "0.0.0" and "0.1.0" fails to parse, and the error names both literals.
C5_OtherApiVersionFails ==
    (op \in ParseOps
       /\ IsSome(Unwrap(doc).apiVersion)
       /\ Unwrap(Unwrap(doc).apiVersion) \notin {YStr("0.0.0"), YStr("0.1.0")}) =>
          /\ cfg = None
          /\ \E i \in 1..Len(err.expected) : err.expected[i] = "0.0.0"
          /\ \E i \in 1..Len(err.expected) : err.expected[i] = "0.1.0"

\* C6: for the legacy variant secrets() is empty whatever the payload holds,
\* also after edits through mut_meta that add secrets.
C6_LegacySecretsEmpty ==
    (IsSome(cfg) /\ Unwrap(cfg).variant = "V0_0_0") => Secrets(Unwrap(cfg)) = {}

C6_Witness ==
    /\ IsSome(cfg)
    /\ Unwrap(cfg).variant = "V0_0_0"
    /\ op = "mut_meta"
    /\ Len(CarriedNames(Unwrap(cfg))) = MaxSecrets

\* C7: for V0_1_0 secrets() holds every SecretConfig of meta.secrets and nothing
\* else, one element per distinct name; it is empty when meta.secrets is absent.
C7_SecretsIsDedupedSet ==
    (IsSome(cfg) /\ Unwrap(cfg).variant = "V0_1_0") =>
       LET names == CarriedNames(Unwrap(cfg))
           set == Secrets(Unwrap(cfg))
       IN  /\ \A i \in 1..Len(names) : \E x \in set : x.name.inner = names[i]
           /\ \A x \in set : \E i \in 1..Len(names) : names[i] = x.name.inner
           /\ \A x, y \in set : x.name.inner = y.name.inner => x = y
           /\ Cardinality(set) = Cardinality({names[i] : i \in 1..Len(names)})
           /\ Unwrap(cfg).config.meta.secrets = None => set = {}

C7_Witness ==
    /\ IsSome(cfg)
    /\ Unwrap(cfg).variant = "V0_1_0"
    /\ Len(CarriedNames(Unwrap(cfg))) = 2
    /\ CarriedNames(Unwrap(cfg))[1] = CarriedNames(Unwrap(cfg))[2]
    /\ Cardinality(Secrets(Unwrap(cfg))) = 1

\* C9: direction() is Source iff meta.type is some prefix followed by "-source",
\* and Destination for every other type, for either variant.
C9_DirectionBySuffix ==
    IsSome(cfg) =>
       LET ty == Unwrap(cfg).config.meta.type_
       IN  /\ Direction(Unwrap(cfg)) \in {"source", "dest"}
           /\ Direction(Unwrap(cfg)) = "source" <=>
                 \E k \in 0..Len(ty) : ty = SubSeq(ty, 1, k) \o SOURCE_SUFFIX

C9_Witness ==
    /\ IsSome(cfg)
    /\ Unwrap(cfg).variant = "V0_0_0"
    /\ Unwrap(cfg).config.meta.type_ = <<"m">> \o SOURCE_SUFFIX
    /\ Direction(Unwrap(cfg)) = "source"

\* the error a document's first ill-formed secret name is rejected with
FirstIllFormedError(d) ==
    LET names == DeclaredNames(d)
        first == CHOOSE i \in IllFormedAt(names) : \A j \in IllFormedAt(names) : i <= j
    IN  Validate(SecretNameOf(names[first])).err

\* C10 (as claimed): a document declaring ill-formed secret names fails to parse
\* with the validation error of the first of them in declaration order.
C10_FirstIllFormedNameReported ==
    (op \in ParseOps /\ IllFormedAt(DeclaredNames(Unwrap(doc))) # {}) =>
       /\ cfg = None
       /\ err = FirstIllFormedError(Unwrap(doc))

\* decoding gets to meta.secrets: the apiVersion does not abort the parse and
\* no key of meta that precedes secrets fails to decode
ReachesSecrets(d) ==
    /\ d.apiVersion \in {None, Some(YNull), Some(YStr("0.0.0")), Some(YStr("0.1.0"))}
    /\ ~(d.meta.producerFirst /\ d.meta.producer = Some("1"))

\* C10 (amended): a document declaring ill-formed secret names yields no
\* configuration; when decoding gets to meta.secrets, the error is the
\* validation error of the first ill-formed name in declaration order.
C10_FirstIllFormedNameReportedWhenReached ==
    (op \in ParseOps /\ IllFormedAt(DeclaredNames(Unwrap(doc))) # {}) =>
       /\ cfg = None
       /\ ReachesSecrets(Unwrap(doc)) => err = FirstIllFormedError(Unwrap(doc))

C10_Witness ==
    /\ op = "config_from_str"
    /\ Unwrap(doc).apiVersion = Some(YStr("0.1.0"))
    /\ Unwrap(doc).meta.version = None
    /\ DeclaredNames(Unwrap(doc)) = << <<" ">>, <<"1">> >>
    /\ cfg = None
    /\ err = ErrInvalidChar(<<" ">>)

----------------------------------------------------------------------------
(* Claims about serialization (checked under SpecFile) *)

\* C8: what write_to_file emits carries the apiVersion literal of the variant
\* and has no key for an absent optional field; reading it back yields the
\* configuration that was written, of the same variant, when its secret names
\* are well-formed.
C8_RoundTrip ==
    [][ /\ op' = "write_to_file" =>
             /\ Unwrap(file').apiVersion =
                   Some(YStr(IF Unwrap(cfg).variant = "V0_0_0" THEN "0.0.0" ELSE "0.1.0"))
             /\ Unwrap(cfg).config.meta.secrets = None =>
                   Unwrap(file').meta.secrets = None
             /\ Unwrap(cfg).config.meta.producer = None =>
                   Unwrap(file').meta.producer = None
             /\ Unwrap(cfg).config.transforms = None =>
                   Unwrap(file').transforms = None
        /\ (op' = "from_file" /\ IllFormedAt(CarriedNames(Unwrap(cfg))) = {}) =>
             /\ cfg' = cfg
             /\ err' = NoErr ]_vars

C8_Witness ==
    /\ op = "from_file"
    /\ IsSome(cfg)
    /\ Unwrap(cfg).variant = "V0_0_0"
    /\ Len(CarriedNames(Unwrap(cfg))) = MaxSecrets
    /\ Unwrap(cfg).config.meta.producer = None
    /\ Unwrap(file).meta.producer = None

----------------------------------------------------------------------------
(* Claims about edits through mut_meta (checked under Spec) *)

\* C11: after every edit through mut_meta, of either variant, direction() and
\* image() are the values of the current meta.type and meta.version (image()
\* being "infinyon/fluvio-connect-<type>:<version>"), and the edit changes
\* neither the variant tag nor the transforms.
C11_DerivedAfterEdit ==
    [][ op' = "mut_meta" =>
          LET old == Unwrap(cfg)
              new == Unwrap(cfg')
              ty == new.config.meta.type_
          IN  /\ new.variant = old.variant
              /\ Transforms(new) = Transforms(old)
              /\ Image(new) =
                    <<"infinyon/fluvio-connect", "-", ty, ":", new.config.meta.version>>
              /\ Direction(new) = "source" <=>
                    \E k \in 0..Len(ty) : ty = SubSeq(ty, 1, k) \o SOURCE_SUFFIX
              /\ Direction(new) \in {"source", "dest"} ]_vars

C11_Witness ==
    /\ op = "mut_meta"
    /\ IsSome(cfg)
    /\ Unwrap(cfg).variant = "V0_0_0"
    /\ Transforms(Unwrap(cfg)) = Some("transforms")
    /\ Unwrap(cfg).config.meta.type_ = <<"-", "s">> \o SOURCE_SUFFIX
    /\ Unwrap(cfg).config.meta.version = "latest"
    /\ Direction(Unwrap(cfg)) = "source"
    /\ Image(Unwrap(cfg)) =
          <<"infinyon/fluvio-connect", "-", <<"-", "s">> \o SOURCE_SUFFIX, ":", "latest">>

----------------------------------------------------------------------------
(* Claims about the validation error (checked under SpecName) *)

\* the one reason the precedence empty, invalid character, leading digit
\* selects for a string, and the string the message must quote
ReasonFor(s) ==
    IF Len(s) = 0 THEN "Secret name cannot be empty"
    ELSE IF \E i \in 1..Len(s) : s[i] \notin WordClass
         THEN "Secret name {} can only contain alphanumeric ASCII characters and underscores"
    ELSE IF s[1] \in DigitClass THEN "Secret name {} cannot start with a number"
    ELSE ""

\* a construction result reports exactly the reason selected for the input,
\* and a reason given for a non-empty input quotes the input unchanged
ReportsReason(r) ==
    /\ r.err.msg = ReasonFor(input)
    /\ r.ok <=> ReasonFor(input) = ""
    /\ r.err.name = (IF r.ok THEN <<>> ELSE input)

\* C12: a rejected string gets exactly one reason, by the precedence empty,
\* then invalid character, then leading digit: a string that starts with a
\* digit and holds a character outside [A-Za-z0-9_] is an invalid-character
\* error, the leading-digit error is given only to strings whose characters are
\* all in [A-Za-z0-9_], and the non-empty errors carry the string verbatim.
C12_OneReasonByPrecedence ==
    /\ IsSome(parsed) => ReportsReason(Unwrap(parsed))
    /\ IsSome(decoded) => ReportsReason(Unwrap(decoded))
    /\ \A r \in {Unwrap(o) : o \in {x \in {parsed, decoded} : IsSome(x)}} :
          r.err = ErrLeadingDigit(input) => \A i \in 1..Len(input) : input[i] \in WordClass

C12_Witness ==
    /\ IsSome(parsed) /\ IsSome(decoded)
    /\ Len(input) >= 2
    /\ input[1] \in DigitClass
    /\ \E i \in 2..Len(input) : input[i] \notin WordClass
    /\ Unwrap(parsed).err = ErrInvalidChar(input)
    /\ Unwrap(decoded).err = ErrInvalidChar(input)

====
